---- MODULE Spec2Model ----
(***************************************************************************)
(* Smart Garden App: the care heuristic engine                             *)
(* (PlantService.calculate_watering_schedule and                           *)
(* WeatherService.get_sun_exposure_estimate), the flat-file stores of      *)
(* DataManager behind the forms and buttons, and the operations that call  *)
(* external services, as state machines.                                   *)
(*                                                                         *)
(* A datetime is a number of seconds of local time; its date is            *)
(* t \div Day and its time of day is t % Day.  A forecast is a sequence of *)
(* entries with a precipitation amount in tenths of a millimetre.          *)
(***************************************************************************)
EXTENDS Integers, Sequences, FiniteSets, TLC

VARIABLES
    now,                 \* the wall clock, datetime.now()
    base_interval_days,  \* argument of calculate_watering_schedule
    last_watered,        \* argument of calculate_watering_schedule
    weather_data,        \* the weather snapshot handed to both functions
    forecast_data,       \* argument of calculate_watering_schedule
    placement,           \* argument of get_sun_exposure_estimate
    plants,              \* the plant store (plants_database.json)
    wres,                \* the latest call of calculate_watering_schedule
    wprev,               \* the call before it
    sres,                \* the latest call of get_sun_exposure_estimate
    ticks,               \* clock steps taken so far
    issued,              \* the ids add_plant has returned, in order
    user_profile,        \* the profile store (user_profile.json)
    images,              \* the image files saved under plant_images/
    submission,          \* the form submitted last, with its required fields
    chat_history,        \* the chat log (chat_history.json)
    chat_sent,           \* every entry add_chat_message was given, in order
    chat_view,           \* st.session_state.chat_history
    api_key,             \* whether the service of the operation has its API key
    operation,           \* the external operation called
    responses,           \* what the network answers to the successive requests
    requests,            \* the requests sent, in order
    net_result,          \* what the operation returned
    sprev,               \* the call of get_sun_exposure_estimate before the latest
    sessions,            \* the store operations in progress, one per session
    store_ret,           \* what the latest direct call of a store method returned
    dash                 \* what the latest render of the dashboard page showed

\* The arguments and results of the care heuristic engine.
engineVars == <<base_interval_days, last_watered, weather_data, forecast_data,
                placement, wres, wprev, sres>>

\* The stores behind the forms and buttons, and what the forms were given.
storeVars == <<issued, user_profile, images, submission>>

chatVars == <<chat_history, chat_sent, chat_view>>

netVars == <<api_key, operation, responses, requests, net_result>>

pageVars == <<sprev, sessions, store_ret, dash>>

vars == <<now, base_interval_days, last_watered, weather_data, forecast_data,
          placement, plants, wres, wprev, sres, ticks, issued, user_profile,
          images, submission, chat_history, chat_sent, chat_view, api_key,
          operation, responses, requests, net_result, sprev, sessions,
          store_ret, dash>>

-----------------------------------------------------------------------------
(* Bounds of the model *)

MaxInterval == 3
MaxDays == 5
MaxTicks == 2
MaxForecastLen == 9

-----------------------------------------------------------------------------
(* datetime *)

SecondsPerMinute == 60
MinutesPerHour == 60
HoursPerDay == 24
Minute == SecondsPerMinute
Hour == MinutesPerHour * Minute
Day == HoursPerDay * Hour

hour(t) == (t % Day) \div Hour
minute(t) == (t % Hour) \div Minute
second(t) == t % Minute

\* datetime.isoformat(): the date and the time of day, written out.
isoformat(t) == <<t \div Day, hour(t), minute(t), second(t)>>

\* datetime.fromisoformat(): the datetime a written date and time denote.
fromisoformat(s) == s[1] * Day + s[2] * Hour + s[3] * Minute + s[4]

\* timedelta.days: whole days, rounded towards minus infinity.
timedelta_days(delta) == delta \div Day

Max(a, b) == IF a >= b THEN a ELSE b
Min(a, b) == IF a <= b THEN a ELSE b

-----------------------------------------------------------------------------
(* Values of last_watered: None, a string (ISO text, possibly empty) or a  *)
(* datetime.                                                               *)

None == [kind |-> "None", str |-> <<>>, dt |-> 0]
Str(s) == [kind |-> "str", str |-> s, dt |-> 0]
Datetime(t) == [kind |-> "datetime", str |-> <<>>, dt |-> t]

\* Python truthiness of a last_watered value: None and "" are falsy.
Truthy(v) == ~(v.kind = "None" \/ (v.kind = "str" /\ v.str = <<>>))

-----------------------------------------------------------------------------
(* PlantService.calculate_watering_schedule                               *)
(* Message texts are kept without their leading emoji; the numbers a       *)
(* message formats in are its args.                                        *)

\* forecast_data[:n]
Slice(forecast, n) == SubSeq(forecast, 1, Min(n, Len(forecast)))

\* The loop over the first n entries looking for precipitation > 0.
RainWithin(forecast, n) ==
    \E i \in 1..Len(Slice(forecast, n)) : forecast[i].precipitation > 0

recent_rain_mut4(forecast) == RainWithin(forecast, 4)
recent_rain(forecast) == RainWithin(forecast, 8)

rain_expected(forecast) == RainWithin(forecast, 4)

adjusted_interval_nofloor(base, current_temp) ==
    IF current_temp > 35 THEN base - 1
    ELSE IF current_temp < 15 THEN base + 1
    ELSE base
adjusted_interval(base, current_temp) ==
    IF current_temp > 35 THEN Max(1, base - 1)
    ELSE IF current_temp < 15 THEN base + 1
    ELSE base

days_since_hours(lw, clock) ==
    (clock - (IF lw.kind = "str" THEN fromisoformat(lw.str) ELSE lw.dt)) \div Hour
days_since(lw, clock) ==
    timedelta_days(clock - (IF lw.kind = "str" THEN fromisoformat(lw.str) ELSE lw.dt))

new_plant_result_medium ==
    [needs_water |-> TRUE,
     days_since_watered |-> 0,
     message |-> [text |-> "New plant! Water it now to get started.", args |-> <<>>],
     urgency |-> "medium"]
new_plant_result ==
    [needs_water |-> TRUE,
     days_since_watered |-> 0,
     message |-> [text |-> "New plant! Water it now to get started.", args |-> <<>>],
     urgency |-> "high"]

\* The branch taken once neither rain signal holds and the plant is due.
due_result_strict(d, adj) ==
    IF d > adj + 1
    THEN [needs_water |-> TRUE, urgency |-> "high",
          message |-> [text |-> "Needs water! It's been {} days (recommended: every {} days).",
                       args |-> <<d, adj>>]]
    ELSE [needs_water |-> TRUE, urgency |-> "medium",
          message |-> [text |-> "Time to water! It's been {} days.", args |-> <<d>>]]
due_result(d, adj) ==
    IF d >= adj + 1
    THEN [needs_water |-> TRUE, urgency |-> "high",
          message |-> [text |-> "Needs water! It's been {} days (recommended: every {} days).",
                       args |-> <<d, adj>>]]
    ELSE [needs_water |-> TRUE, urgency |-> "medium",
          message |-> [text |-> "Time to water! It's been {} days.", args |-> <<d>>]]

\* The last branch: not due yet.
happy_result_base(d, adj, base) ==
    [needs_water |-> FALSE, urgency |-> "low",
     message |-> [text |-> "Happy! Next watering in {} day(s).", args |-> <<base - d>>]]
happy_result(d, adj, base) ==
    [needs_water |-> FALSE, urgency |-> "low",
     message |-> [text |-> "Happy! Next watering in {} day(s).", args |-> <<adj - d>>]]

\* The status with the rain-expected test made before the recent-rain test.
watering_status_expected_first(d, adj, base, recent, expected) ==
    IF expected
    THEN [needs_water |-> FALSE, urgency |-> "low",
          message |-> [text |-> "Rain expected soon. Hold off on watering.", args |-> <<>>]]
    ELSE IF recent
    THEN [needs_water |-> FALSE, urgency |-> "low",
          message |-> [text |-> "Recent rain detected. No need to water yet.", args |-> <<>>]]
    ELSE IF d >= adj
    THEN due_result(d, adj)
    ELSE happy_result(d, adj, base)

\* "Determine watering status": needs_water, urgency and message.
watering_status(d, adj, base, recent, expected) ==
    IF recent
    THEN [needs_water |-> FALSE, urgency |-> "low",
          message |-> [text |-> "Recent rain detected. No need to water yet.", args |-> <<>>]]
    ELSE IF expected
    THEN [needs_water |-> FALSE, urgency |-> "low",
          message |-> [text |-> "Rain expected soon. Hold off on watering.", args |-> <<>>]]
    ELSE IF d >= adj
    THEN due_result(d, adj)
    ELSE happy_result(d, adj, base)

calculate_watering_schedule(base, lw, weather, forecast, clock) ==
    IF ~Truthy(lw)
    THEN new_plant_result
    ELSE LET d == days_since(lw, clock)
             recent == recent_rain(forecast)
             adj == adjusted_interval(base, weather.temperature)
             expected == rain_expected(forecast)
             st == watering_status(d, adj, base, recent, expected)
         IN  [needs_water |-> st.needs_water,
              days_since_watered |-> d,
              adjusted_interval |-> adj,
              message |-> st.message,
              urgency |-> st.urgency,
              recent_rain |-> recent,
              rain_expected |-> expected]

-----------------------------------------------------------------------------
(* WeatherService.get_sun_exposure_estimate                                *)
(*                                                                         *)
(* Sun hours are kept exactly: base sun hours in SunUnit-ths of an hour    *)
(* (0.5 h per hour since sunrise is 5 units per minute, 0.3 h is 3 units,  *)
(* an hour of remaining daylight is 10 units per minute), the adjusted     *)
(* sun hours in SunUnit * 10-ths (the placement multiplier is in tenths),  *)
(* and the reported sun_hours in tenths of an hour.                        *)

SunUnit == 10 * MinutesPerHour

\* hour * 60 + minute of a datetime: the minute of its day, seconds dropped.
time_minutes(t) == hour(t) * MinutesPerHour + minute(t)

is_daytime_exclusive(weather, clock) ==
    IF Truthy(weather.sunrise) /\ Truthy(weather.sunset)
    THEN /\ time_minutes(weather.sunrise.dt) < time_minutes(clock)
         /\ time_minutes(clock) < time_minutes(weather.sunset.dt)
    ELSE TRUE
is_daytime(weather, clock) ==
    IF Truthy(weather.sunrise) /\ Truthy(weather.sunset)
    THEN /\ time_minutes(weather.sunrise.dt) <= time_minutes(clock)
         /\ time_minutes(clock) <= time_minutes(weather.sunset.dt)
    ELSE TRUE

\* hours_since_sunrise, in minutes (the code divides them by 60.0).
minutes_since_sunrise(weather, clock) ==
    IF Truthy(weather.sunrise) /\ Truthy(weather.sunset) /\ is_daytime(weather, clock)
    THEN time_minutes(clock) - time_minutes(weather.sunrise.dt)
    ELSE 0

\* max(0, (sunset_time_minutes - current_time_minutes) / 60.0), per minute.
remaining_minutes(weather, clock) ==
    Max(0, time_minutes(weather.sunset.dt) - time_minutes(clock))

\* sun_intensity with the band boundaries taken as belonging to the earlier band.
day_intensity_late_bands(m, cloud_cover) ==
    IF m <= 4 * MinutesPerHour
    THEN IF cloud_cover < 20 THEN "Medium" ELSE "Low"
    ELSE IF m <= 8 * MinutesPerHour
    THEN IF cloud_cover < 20 THEN "High"
         ELSE IF cloud_cover < 50 THEN "Medium" ELSE "Low"
    ELSE IF cloud_cover < 20 THEN "Medium-High"
         ELSE IF cloud_cover < 50 THEN "Medium" ELSE "Low"

\* sun_intensity of a daytime call.
day_intensity(m, cloud_cover) ==
    IF m < 4 * MinutesPerHour
    THEN IF cloud_cover < 20 THEN "Medium" ELSE "Low"
    ELSE IF m < 8 * MinutesPerHour
    THEN IF cloud_cover < 20 THEN "High"
         ELSE IF cloud_cover < 50 THEN "Medium" ELSE "Low"
    ELSE IF cloud_cover < 20 THEN "Medium-High"
         ELSE IF cloud_cover < 50 THEN "Medium" ELSE "Low"

\* sun_hours of a daytime call before the placement multiplier, in SunUnit-ths.
day_sun_hours(m, cloud_cover, weather, clock) ==
    IF m < 4 * MinutesPerHour
    THEN IF cloud_cover < 20 THEN 2 * SunUnit + (4 * MinutesPerHour - m) * 5
         ELSE IF cloud_cover < 50 THEN 1 * SunUnit + (4 * MinutesPerHour - m) * 3
         ELSE SunUnit \div 2
    ELSE IF m < 8 * MinutesPerHour
    THEN IF cloud_cover < 20 THEN 4 * SunUnit + (8 * MinutesPerHour - m) * 5
         ELSE IF cloud_cover < 50 THEN 2 * SunUnit + (8 * MinutesPerHour - m) * 3
         ELSE 1 * SunUnit
    ELSE IF cloud_cover < 20 THEN remaining_minutes(weather, clock) * 10
         ELSE IF cloud_cover < 50 THEN remaining_minutes(weather, clock) * 7
         ELSE remaining_minutes(weather, clock) * 4

night_intensity_low == "Low"
night_intensity == "None"

\* placement_impact.get(placement, ...): sun_multiplier in tenths, exposure.
placement_data_default4(p) ==
    IF p = "Open Roof" THEN [sun_multiplier |-> 10, exposure |-> "Full"]
    ELSE IF p = "Balcony" THEN [sun_multiplier |-> 7, exposure |-> "Partial"]
    ELSE IF p = "Indoor Window" THEN [sun_multiplier |-> 4, exposure |-> "Indirect"]
    ELSE [sun_multiplier |-> 4, exposure |-> "Unknown"]
placement_data(p) ==
    IF p = "Open Roof" THEN [sun_multiplier |-> 10, exposure |-> "Full"]
    ELSE IF p = "Balcony" THEN [sun_multiplier |-> 7, exposure |-> "Partial"]
    ELSE IF p = "Indoor Window" THEN [sun_multiplier |-> 4, exposure |-> "Indirect"]
    ELSE [sun_multiplier |-> 5, exposure |-> "Unknown"]

\* round(x, 1) of x = adjusted / (SunUnit * 10) hours, in tenths.  The code
\* rounds a binary float: away from a tie the nearest tenth; on an exact
\* decimal tie either neighbour, as the float's rounding error falls.
round1(adjusted) ==
    LET q == adjusted \div SunUnit
        r == adjusted % SunUnit
    IN  IF 2 * r < SunUnit THEN {q}
        ELSE IF 2 * r > SunUnit THEN {q + 1}
        ELSE {q, q + 1}

\* actual_exposure and risk_level.
exposure_and_risk_partial(daytime, intensity, exposure, temperature, m) ==
    IF ~daytime
    THEN [actual_exposure |-> "No Sun (Night)", risk_level |-> "None"]
    ELSE IF intensity = "High" /\ exposure \in {"Full", "Partial"}
    THEN IF temperature > 35 /\ m >= 4 * MinutesPerHour
         THEN [actual_exposure |-> "Very High - Risk of Overheating", risk_level |-> "High"]
         ELSE IF temperature > 30
         THEN [actual_exposure |-> "High - Monitor Temperature", risk_level |-> "Medium"]
         ELSE [actual_exposure |-> "High - Good Conditions", risk_level |-> "Low"]
    ELSE IF intensity \in {"Medium-High", "Medium"}
    THEN [actual_exposure |-> "Moderate - Good conditions", risk_level |-> "None"]
    ELSE [actual_exposure |-> "Low - May need more light", risk_level |-> "None"]
exposure_and_risk(daytime, intensity, exposure, temperature, m) ==
    IF ~daytime
    THEN [actual_exposure |-> "No Sun (Night)", risk_level |-> "None"]
    ELSE IF intensity = "High" /\ exposure = "Full"
    THEN IF temperature > 35 /\ m >= 4 * MinutesPerHour
         THEN [actual_exposure |-> "Very High - Risk of Overheating", risk_level |-> "High"]
         ELSE IF temperature > 30
         THEN [actual_exposure |-> "High - Monitor Temperature", risk_level |-> "Medium"]
         ELSE [actual_exposure |-> "High - Good Conditions", risk_level |-> "Low"]
    ELSE IF intensity = "High" /\ exposure = "Partial"
    THEN [actual_exposure |-> "High - Monitor closely", risk_level |-> "Low"]
    ELSE IF intensity \in {"Medium-High", "Medium"}
    THEN [actual_exposure |-> "Moderate - Good conditions", risk_level |-> "None"]
    ELSE [actual_exposure |-> "Low - May need more light", risk_level |-> "None"]

\* The words _get_sun_recommendation looks for that an exposure text contains.
Contains(text) ==
    IF text = "Very High - Risk of Overheating" THEN {"Very High", "High"}
    ELSE IF text = "High - Monitor Temperature" THEN {"High", "Monitor"}
    ELSE IF text = "High - Good Conditions" THEN {"High"}
    ELSE IF text = "High - Monitor closely" THEN {"High", "Monitor"}
    ELSE IF text = "Moderate - Good conditions" THEN {"Moderate"}
    ELSE IF text = "Low - May need more light" THEN {"Low"}
    ELSE {}

get_sun_recommendation(exposure, temperature, daytime) ==
    IF ~daytime THEN "Night time - No sun exposure"
    ELSE IF "Very High" \in Contains(exposure) /\ temperature > 35
    THEN "High heat and intense sun! Consider moving to shade or providing extra water."
    ELSE IF "Very High" \in Contains(exposure)
    THEN "Very sunny conditions. Ensure adequate watering."
    ELSE IF "High" \in Contains(exposure) /\ "Monitor" \in Contains(exposure)
    THEN "High sun exposure. Monitor temperature and water needs."
    ELSE IF "High" \in Contains(exposure)
    THEN "Good sun exposure. Monitor soil moisture."
    ELSE IF "Moderate" \in Contains(exposure)
    THEN "Moderate conditions. Plant should be comfortable."
    ELSE IF "Low" \in Contains(exposure)
    THEN "Limited sunlight. Consider moving to brighter location if plant needs more light."
    ELSE "Conditions are suitable for your plant."

\* The results get_sun_exposure_estimate can return (one, but for a rounding tie).
get_sun_exposure_estimate(p, weather, clock) ==
    LET daytime == is_daytime(weather, clock)
        m == minutes_since_sunrise(weather, clock)
        intensity == IF ~daytime THEN night_intensity
                     ELSE day_intensity(m, weather.cloud_cover)
        hours == IF ~daytime THEN 0
                 ELSE day_sun_hours(m, weather.cloud_cover, weather, clock)
        pd == placement_data(p)
        er == exposure_and_risk(daytime, intensity, pd.exposure, weather.temperature, m)
    IN  { [sun_intensity |-> intensity,
           cloud_cover |-> weather.cloud_cover,
           placement |-> p,
           estimated_exposure |-> er.actual_exposure,
           is_daytime |-> daytime,
           sun_hours |-> h,
           risk_level |-> er.risk_level,
           recommendation |-> get_sun_recommendation(er.actual_exposure,
                                                     weather.temperature, daytime)]
          : h \in round1(hours * pd.sun_multiplier) }

-----------------------------------------------------------------------------
(* DataManager: the plant store, the chat log and the user profile         *)

\* max(...) of a non-empty set of numbers.
MaxOf(S) == CHOOSE x \in S : \A y \in S : y <= x

\* "image_path": "" when no photo was uploaded, else the file written.
NoImage == [saved |-> FALSE, name |-> "", at |-> 0]

\* f"plant_images/{plant_name}_{datetime.now().strftime('%Y%m%d_%H%M%S')}.jpg"
ImagePath(plant_name, clock) == [saved |-> TRUE, name |-> plant_name, at |-> clock]

\* max([p.get('id', 0) for p in plants] + [0]) + 1
new_id_count(store) == Len(store) + 1
new_id(store) == MaxOf({store[i].id : i \in DOMAIN store} \cup {0}) + 1

\* The record add_plant builds from plant_data.
new_plant_interval_less(store, plant_data) ==
    [id |-> new_id(store),
     name |-> plant_data.name,
     placement |-> plant_data.placement,
     watering_interval_days |-> plant_data.watering_interval_days - 1,
     last_watered |-> plant_data.last_watered,
     image_path |-> plant_data.image_path]
new_plant(store, plant_data) ==
    [id |-> new_id(store),
     name |-> plant_data.name,
     placement |-> plant_data.placement,
     watering_interval_days |-> plant_data.watering_interval_days,
     last_watered |-> plant_data.last_watered,
     image_path |-> plant_data.image_path]

\* add_plant: the store after the call.
add_plant(store, plant_data) == Append(store, new_plant(store, plant_data))

\* plants[i].update(updates) for updates = {"last_watered": value}.
update_last_watered(plant, value) == [plant EXCEPT !.last_watered = value]

\* update_plant(plant_id, {"last_watered": value}): the first plant with the
\* id is updated; the store is left alone when there is none.
update_plant(store, plant_id, value) ==
    LET hits == {i \in DOMAIN store : store[i].id = plant_id}
    IN  IF hits = {} THEN store
        ELSE LET first == CHOOSE i \in hits : \A j \in hits : i <= j
             IN  [store EXCEPT ![first] = update_last_watered(store[first], value)]

\* mark_watered(plant_id) at the clock value given.
watered_stamp_tomorrow(clock) == Str(isoformat(clock + Day))
watered_stamp(clock) == Str(isoformat(clock))
mark_watered(store, plant_id, clock) == update_plant(store, plant_id, watered_stamp(clock))

\* A deletion that also drops the plants added after the one named.
delete_plant_and_later(store, plant_id) == SelectSeq(store, LAMBDA p : p.id < plant_id)

\* delete_plant: [p for p in plants if p.get('id') != plant_id]
delete_plant(store, plant_id) == SelectSeq(store, LAMBDA p : p.id # plant_id)

\* The profile file as _ensure_files_exist writes it: {}.
EmptyProfile == [name |-> "", email |-> "", created_at |-> None, updated_at |-> None]

\* save_user_profile(profile_data) at the clock value given.
save_user_profile(profile_data, clock) ==
    [name |-> profile_data.name,
     email |-> profile_data.email,
     created_at |-> profile_data.created_at,
     updated_at |-> Str(isoformat(clock))]

\* "Keep only last 100 messages"
ChatCap == 100

\* history[-n:] for n > 0
LastN(history, n) ==
    IF Len(history) <= n THEN history
    ELSE SubSeq(history, Len(history) - n + 1, Len(history))

\* add_chat_message: the log after the call.
keep_last_from_start(history) ==
    IF Len(history) > ChatCap THEN SubSeq(history, 1, ChatCap) ELSE history
keep_last(history) ==
    IF Len(history) > ChatCap THEN LastN(history, ChatCap) ELSE history
add_chat_message(history, chat_entry) == keep_last(Append(history, chat_entry))

\* get_chat_history(limit): history[-limit:] if limit else history
get_chat_history(history, limit) ==
    IF limit # 0 THEN LastN(history, limit) ELSE history

-----------------------------------------------------------------------------
(* Calls: what a call returned and when it was made *)

NoCall == [called |-> FALSE]
Call(t, r) == [called |-> TRUE, at |-> t, result |-> r]

-----------------------------------------------------------------------------
(* SpecWater: calculate_watering_schedule applied to inputs drawn from     *)
(* bounded sets, while the clock runs.                                     *)

\* The moment the plant of the call was last watered.
WateredAt == 3 * Day + 9 * Hour + 30 * Minute + 15

LastWateredValues ==
    {None, Str(<<>>), Str(isoformat(WateredAt)), Datetime(WateredAt)}

WaterTemps == {14, 15, 25, 35, 36}

WaterWeathers ==
    {[temperature |-> t, cloud_cover |-> 10, sunrise |-> None, sunset |-> None] :
        t \in WaterTemps}

\* A forecast of n entries, dry but for entry p (none when p = 0).
Forecast(n, p) ==
    [i \in 1..n |-> [precipitation |-> IF i = p THEN 25 ELSE 0]]

ForecastLens == {0, 3, MaxForecastLen}

Forecasts == {Forecast(n, p) : n \in ForecastLens, p \in 0..MaxForecastLen}

\* Clock values after WateredAt: in the middle of each day since then, and
\* an hour before the next whole day is complete.
WaterNowTimes ==
    {WateredAt + k * Day + o : k \in 0..MaxDays, o \in {12 * Hour, 23 * Hour}}

\* The store of the engine's specifications: one plant, added with the
\* defaults of add_plant.
StoredPlants ==
    <<[id |-> 1, name |-> "Unknown Plant", placement |-> "Indoor Window",
       watering_interval_days |-> 3, last_watered |-> None,
       image_path |-> NoImage]>>

\* No form has been submitted.
NoSubmission == [form |-> "none", name |-> "", email |-> ""]

\* No external operation has been called.
NoOperation == "none"
NoResult == [returned |-> FALSE]

\* The parts of the state a specification does not exercise.
StoreIdle ==
    /\ issued = <<>>
    /\ user_profile = EmptyProfile
    /\ images = {}
    /\ submission = NoSubmission

ChatIdle ==
    /\ chat_history = <<>>
    /\ chat_sent = <<>>
    /\ chat_view = <<>>

NetIdle ==
    /\ api_key = FALSE
    /\ operation = NoOperation
    /\ responses = <<>>
    /\ requests = <<>>
    /\ net_result = NoResult

\* No store method has been called directly, no page has been rendered.
NoReturn == [returned |-> FALSE]
NoRender == [rendered |-> FALSE]

PageIdle ==
    /\ sprev = NoCall
    /\ sessions = <<>>
    /\ store_ret = NoReturn
    /\ dash = NoRender

InitWater ==
    /\ now \in WaterNowTimes
    /\ base_interval_days \in 1..MaxInterval
    /\ last_watered \in LastWateredValues
    /\ weather_data \in WaterWeathers
    /\ forecast_data \in Forecasts
    /\ placement = "Indoor Window"
    /\ plants = StoredPlants
    /\ wres = NoCall
    /\ wprev = NoCall
    /\ sres = NoCall
    /\ ticks = 0
    /\ StoreIdle
    /\ ChatIdle
    /\ NetIdle
    /\ PageIdle

\* A call of calculate_watering_schedule, as the dashboard makes it.
CalcWater ==
    /\ wres' = Call(now, calculate_watering_schedule(base_interval_days, last_watered,
                                                     weather_data, forecast_data, now))
    /\ wprev' = wres
    /\ UNCHANGED <<now, base_interval_days, last_watered, weather_data, forecast_data,
                   placement, plants, sres, ticks, storeVars, chatVars, netVars, pageVars>>

\* An hour passes.
Tick ==
    /\ ticks < MaxTicks
    /\ now' = now + Hour
    /\ ticks' = ticks + 1
    /\ UNCHANGED <<engineVars, plants, storeVars, chatVars, netVars, pageVars>>

NextWater == CalcWater \/ Tick

SpecWater == InitWater /\ [][NextWater]_vars

-----------------------------------------------------------------------------
(* SpecSun: get_sun_exposure_estimate applied to inputs drawn from bounded *)
(* sets.                                                                   *)

Placements == {"Open Roof", "Balcony", "Indoor Window", "Terrace"}

SunTemps == {28, 31, 36}

CloudCovers == {10, 19, 20, 49, 50}

\* The date of the snapshot, and times of day on it.
SunDate == 7 * Day
Clock(h, m, s) == SunDate + h * Hour + m * Minute + s

Sunrises == {None, Datetime(Clock(6, 0, 30))}
Sunsets == {None, Datetime(Clock(18, 0, 20))}

SunWeathers ==
    {[temperature |-> t, cloud_cover |-> c, sunrise |-> sr, sunset |-> ss] :
        t \in SunTemps, c \in CloudCovers, sr \in Sunrises, ss \in Sunsets}

SunNowTimes ==
    {Clock(5, 59, 50), Clock(6, 0, 0), Clock(6, 0, 40), Clock(6, 18, 0),
     Clock(8, 0, 0), Clock(9, 59, 59), Clock(10, 0, 0), Clock(12, 30, 0),
     Clock(13, 59, 59), Clock(14, 0, 0), Clock(16, 0, 0), Clock(17, 45, 0),
     Clock(18, 0, 0), Clock(18, 0, 50), Clock(18, 1, 0), Clock(23, 0, 0)}

InitSun ==
    /\ now \in SunNowTimes
    /\ placement \in Placements
    /\ weather_data \in SunWeathers
    /\ base_interval_days = 3
    /\ last_watered = None
    /\ forecast_data = <<>>
    /\ plants = StoredPlants
    /\ wres = NoCall
    /\ wprev = NoCall
    /\ sres = NoCall
    /\ ticks = 0
    /\ StoreIdle
    /\ ChatIdle
    /\ NetIdle
    /\ PageIdle

\* A call of get_sun_exposure_estimate, as the dashboard makes it.
CalcSun ==
    /\ \E r \in get_sun_exposure_estimate(placement, weather_data, now) :
          sres' = Call(now, r)
    /\ UNCHANGED <<now, base_interval_days, last_watered, weather_data, forecast_data,
                   placement, plants, wres, wprev, ticks, storeVars, chatVars, netVars, pageVars>>

NextSun == CalcSun

SpecSun == InitSun /\ [][NextSun]_vars

-----------------------------------------------------------------------------
(* Properties of calculate_watering_schedule (SpecWater) *)

\* The datetime a present last_watered denotes.
LastWateredTime ==
    IF last_watered.kind = "str" THEN fromisoformat(last_watered.str) ELSE last_watered.dt

\* Whole days between last_watered and the clock value t.
DaysElapsedAt(t) == (t - LastWateredTime) \div Day

\* last_watered is absent: None or the empty string.
Absent == last_watered = None \/ last_watered = Str(<<>>)

\* Some of the first 8 forecast entries has precipitation > 0.
RainInFirst8 ==
    \E i \in DOMAIN forecast_data : i <= 8 /\ forecast_data[i].precipitation > 0

\* No forecast entry at all has precipitation > 0.
NoForecastRain ==
    \A i \in DOMAIN forecast_data : forecast_data[i].precipitation = 0

\* The adjusted interval as section 4.1 states it.
StatedInterval(base, temp) ==
    IF temp > 35 THEN (IF base - 1 >= 1 THEN base - 1 ELSE 1)
    ELSE IF temp < 15 THEN base + 1
    ELSE base

StatedNow == StatedInterval(base_interval_days, weather_data.temperature)

\* C1: whenever last_watered is absent (None or empty) the result is
\* needs_water = true with urgency = high, whatever the interval, the
\* temperature and the forecast, rain in its first 8 entries included.
C1_AbsentNeedsWaterHigh ==
    (wres.called /\ Absent) =>
        (wres.result.needs_water = TRUE /\ wres.result.urgency = "high")

C1_Witness ==
    /\ wres.called
    /\ last_watered = Str(<<>>)
    /\ RainInFirst8
    /\ wres.result.needs_water

\* C2: with a recorded last_watered time, precipitation > 0 in any of the
\* first 8 forecast entries gives needs_water = false and urgency = low,
\* whatever the days elapsed, the interval and the temperature.
C2_RainSuppresses ==
    (wres.called /\ ~Absent /\ RainInFirst8) =>
        (wres.result.needs_water = FALSE /\ wres.result.urgency = "low")

C2_Witness ==
    /\ wres.called
    /\ ~Absent
    /\ Len(forecast_data) >= 8
    /\ forecast_data[8].precipitation > 0
    /\ \A i \in 1..7 : forecast_data[i].precipitation = 0
    /\ DaysElapsedAt(wres.at) >= StatedNow + 1
    /\ ~wres.result.needs_water

\* C3: with last_watered present and no precipitation in the first 8
\* entries, days elapsed >= adjusted interval gives needs_water = true, with
\* urgency high when days elapsed >= adjusted interval + 1 and medium
\* otherwise.
C3_DueUrgency ==
    (wres.called /\ ~Absent /\ ~RainInFirst8 /\ DaysElapsedAt(wres.at) >= StatedNow) =>
        /\ wres.result.needs_water = TRUE
        /\ wres.result.urgency =
              (IF DaysElapsedAt(wres.at) >= StatedNow + 1 THEN "high" ELSE "medium")

C3_Witness ==
    /\ wres.called
    /\ ~Absent
    /\ ~RainInFirst8
    /\ Len(forecast_data) > 8
    /\ forecast_data[9].precipitation > 0
    /\ DaysElapsedAt(wres.at) = StatedNow
    /\ wres.result.urgency = "medium"

\* The scenario of C4: interval 3, last watered 4 days ago, 25 degrees, no
\* forecast rain.
C4_Scenario ==
    /\ wres.called
    /\ ~Absent
    /\ base_interval_days = 3
    /\ DaysElapsedAt(wres.at) = 4
    /\ weather_data.temperature = 25
    /\ NoForecastRain

\* C4 as stated: the scenario returns needs_water = true with urgency =
\* medium.
C4_ScenarioMedium ==
    C4_Scenario => (wres.result.needs_water = TRUE /\ wres.result.urgency = "medium")

\* C4 as amended: the scenario returns needs_water = true with urgency =
\* high (4 days elapsed is at least the adjusted interval 3 plus 1).
C4_ScenarioHigh ==
    C4_Scenario => (wres.result.needs_water = TRUE /\ wres.result.urgency = "high")

C4_Witness ==
    /\ C4_Scenario
    /\ wres.result.adjusted_interval = 3
    /\ wres.result.days_since_watered = 4

\* C5: with last_watered present, no rain signal and days elapsed below the
\* adjusted interval, the result is needs_water = false, urgency = low, and
\* the days remaining it reports are adjusted interval - days elapsed, at
\* least 1; interval 3, watered 1 day ago, 25 degrees reports 2.
C5_NotDueDaysRemaining ==
    (wres.called /\ ~Absent /\ ~RainInFirst8 /\ DaysElapsedAt(wres.at) < StatedNow) =>
        /\ wres.result.needs_water = FALSE
        /\ wres.result.urgency = "low"
        /\ wres.result.message.text = "Happy! Next watering in {} day(s)."
        /\ wres.result.message.args = <<StatedNow - DaysElapsedAt(wres.at)>>
        /\ wres.result.message.args[1] >= 1
        /\ (base_interval_days = 3 /\ DaysElapsedAt(wres.at) = 1
              /\ weather_data.temperature = 25)
             => wres.result.message.args = <<2>>

C5_Witness ==
    /\ wres.called
    /\ ~Absent
    /\ ~RainInFirst8
    /\ base_interval_days = 3
    /\ DaysElapsedAt(wres.at) = 1
    /\ weather_data.temperature = 25
    /\ wres.result.message.args = <<2>>

\* C6: the adjusted interval is max(1, base - 1) above 35 degrees, base + 1
\* below 15 degrees and base otherwise (35 and 15 leave it unchanged); it is
\* at least 1, and adjusted(temp > 35) <= base <= adjusted(temp < 15).
C6_AdjustedInterval ==
    (wres.called /\ ~Absent) =>
        /\ wres.result.adjusted_interval = StatedNow
        /\ wres.result.adjusted_interval >= 1
        /\ weather_data.temperature \in {15, 35}
             => wres.result.adjusted_interval = base_interval_days
        /\ weather_data.temperature > 35
             => wres.result.adjusted_interval <= base_interval_days
        /\ weather_data.temperature < 15
             => wres.result.adjusted_interval >= base_interval_days
        /\ \A hot \in {t \in WaterTemps : t > 35}, cold \in {t \in WaterTemps : t < 15} :
              /\ adjusted_interval(base_interval_days, hot) <= base_interval_days
              /\ base_interval_days <= adjusted_interval(base_interval_days, cold)

C6_Witness ==
    /\ wres.called
    /\ ~Absent
    /\ base_interval_days = 1
    /\ weather_data.temperature = 36
    /\ wres.result.adjusted_interval = 1

\* The length of one forecast entry: calls less than this apart fall in the
\* same forecast window.
ForecastWindow == 3 * Hour

\* C7 as stated: two calls with identical inputs made within the same
\* forecast window return identical results.
C7_SameInputsSameResult ==
    (wres.called /\ wprev.called /\ wres.at - wprev.at < ForecastWindow) =>
        wres.result = wprev.result

\* C7 as amended: the result is a function of the inputs and of the whole
\* days elapsed between last_watered and the clock at the call (nothing else
\* of the clock matters, and nothing at all when last_watered is absent); and
\* a call changes neither its arguments nor the plant store.
C7_DeterministicInDays ==
    /\ [](wres.called /\ wprev.called
            /\ (Absent \/ DaysElapsedAt(wres.at) = DaysElapsedAt(wprev.at))
          => wres.result = wprev.result)
    /\ [][<<wres, wprev>>' # <<wres, wprev>> =>
            UNCHANGED <<base_interval_days, last_watered, weather_data,
                        forecast_data, plants>>]_vars

C7_Witness ==
    /\ wres.called
    /\ wprev.called
    /\ ~Absent
    /\ wres.at > wprev.at
    /\ DaysElapsedAt(wres.at) = DaysElapsedAt(wprev.at)
    /\ wres.result = wprev.result

-----------------------------------------------------------------------------
(* Properties of get_sun_exposure_estimate (SpecSun) *)

\* The time of day of a datetime, in seconds and in whole minutes.
TimeOfDay(t) == t % Day
MinuteOfDay(t) == (t % Day) \div SecondsPerMinute

\* The weather snapshot supplies a sunrise/sunset pair.
PairSupplied == weather_data.sunrise # None /\ weather_data.sunset # None

\* The clock minute of the call lies outside [sunrise minute, sunset minute].
OutsideDaylight ==
    /\ PairSupplied
    /\ \/ MinuteOfDay(sres.at) < MinuteOfDay(weather_data.sunrise.dt)
       \/ MinuteOfDay(sres.at) > MinuteOfDay(weather_data.sunset.dt)

\* C8: the reported sun_hours is >= 0 for every placement, cloud cover,
\* temperature and time of day, and whenever it is not daytime the result is
\* sun_hours = 0, intensity None and risk level None.
C8_SunHoursNonNegative ==
    sres.called =>
        /\ sres.result.sun_hours >= 0
        /\ (~sres.result.is_daytime \/ OutsideDaylight) =>
              /\ sres.result.sun_hours = 0
              /\ sres.result.sun_intensity = "None"
              /\ sres.result.risk_level = "None"

C8_Witness ==
    /\ sres.called
    /\ OutsideDaylight
    /\ placement = "Open Roof"
    /\ weather_data.temperature = 36
    /\ weather_data.cloud_cover = 10
    /\ sres.result.sun_hours = 0
    /\ sres.result.sun_intensity = "None"

\* C9 as stated: with a sunrise/sunset pair supplied, is_daytime is true
\* exactly when the current time of day lies in [sunrise, sunset], both
\* bounds inclusive.
C9_DaytimeClosedInterval ==
    (sres.called /\ PairSupplied) =>
        (sres.result.is_daytime <=>
            /\ TimeOfDay(weather_data.sunrise.dt) <= TimeOfDay(sres.at)
            /\ TimeOfDay(sres.at) <= TimeOfDay(weather_data.sunset.dt))

\* C9 as amended: the three times are compared as whole minutes of the day,
\* their seconds dropped: is_daytime is true exactly when the minute of the
\* current time lies in [minute of sunrise, minute of sunset], both bounds
\* inclusive.
C9_DaytimeClosedMinuteInterval ==
    (sres.called /\ PairSupplied) =>
        (sres.result.is_daytime <=>
            /\ MinuteOfDay(weather_data.sunrise.dt) <= MinuteOfDay(sres.at)
            /\ MinuteOfDay(sres.at) <= MinuteOfDay(weather_data.sunset.dt))

C9_Witness ==
    /\ sres.called
    /\ PairSupplied
    /\ TimeOfDay(sres.at) > TimeOfDay(weather_data.sunset.dt)
    /\ MinuteOfDay(sres.at) = MinuteOfDay(weather_data.sunset.dt)
    /\ sres.result.is_daytime

\* The placement factor as section 4.1 states it, in tenths.
StatedFactor(p) ==
    CASE p = "Open Roof" -> 10
      [] p = "Balcony" -> 7
      [] p = "Indoor Window" -> 4
      [] OTHER -> 5

\* The band's base sun hours of the latest call, in SunUnit-ths of an hour.
BandBase ==
    IF sres.result.is_daytime
    THEN day_sun_hours(minutes_since_sunrise(weather_data, sres.at),
                       weather_data.cloud_cover, weather_data, sres.at)
    ELSE 0

\* The scenario of C10: Indoor Window, cloud cover 10%, 2 hours after
\* sunrise, 28 degrees.
C10_Scenario ==
    /\ sres.called
    /\ PairSupplied
    /\ placement = "Indoor Window"
    /\ weather_data.cloud_cover = 10
    /\ weather_data.temperature = 28
    /\ MinuteOfDay(sres.at) - MinuteOfDay(weather_data.sunrise.dt) = 2 * MinutesPerHour

\* C10: the reported sun_hours is the band's base sun hours times the
\* placement factor (Open Roof 1.0, Balcony 0.7, Indoor Window 0.4, any
\* other placement 0.5), rounded to 1 decimal: it is a whole number of
\* tenths within half a tenth of the product; and the scenario gives
\* intensity Medium and sun_hours 1.2.
C10_PlacementFactor ==
    sres.called =>
        /\ 2 * (sres.result.sun_hours * SunUnit - BandBase * StatedFactor(placement)) <= SunUnit
        /\ 2 * (BandBase * StatedFactor(placement) - sres.result.sun_hours * SunUnit) <= SunUnit
        /\ C10_Scenario =>
              (sres.result.sun_intensity = "Medium" /\ sres.result.sun_hours = 12)

C10_Witness ==
    /\ C10_Scenario
    /\ BandBase = 3 * SunUnit
    /\ sres.result.sun_hours = 12

\* The latest call fell in the peak hours: a sunrise/sunset pair was
\* supplied, it was daytime, and 4 to 8 hours had passed since sunrise.
PeakHours ==
    /\ PairSupplied
    /\ sres.result.is_daytime
    /\ minutes_since_sunrise(weather_data, sres.at) >= 4 * MinutesPerHour
    /\ minutes_since_sunrise(weather_data, sres.at) < 8 * MinutesPerHour

\* C11 as stated: in daytime, on an Open Roof (full exposure) in the peak
\* hours, a temperature above 35 gives risk High and a temperature above 30
\* (up to 35) gives risk Medium; risk High is never reported for another
\* placement, nor at night.
C11_RiskByPlacementAndPeak ==
    sres.called =>
        /\ (placement = "Open Roof" /\ PeakHours /\ weather_data.temperature > 35) =>
              sres.result.risk_level = "High"
        /\ (placement = "Open Roof" /\ PeakHours /\ weather_data.temperature > 30
                /\ weather_data.temperature <= 35) =>
              sres.result.risk_level = "Medium"
        /\ sres.result.risk_level = "High" =>
              (placement = "Open Roof" /\ sres.result.is_daytime)

\* C11 as amended: the risk label also depends on the sun intensity.  On an
\* Open Roof with sun intensity High (the peak hours under a cloud cover
\* below 20%), a temperature above 35 gives risk High and a temperature above
\* 30 up to 35 gives risk Medium; in the peak hours under a cloud cover of 20%
\* or more the risk is None whatever the temperature; risk High is reported
\* only for Open Roof, in daytime, with intensity High, in the peak hours.
C11_RiskByIntensityPlacementAndPeak ==
    sres.called =>
        /\ (placement = "Open Roof" /\ sres.result.sun_intensity = "High"
                /\ weather_data.temperature > 35) =>
              sres.result.risk_level = "High"
        /\ (placement = "Open Roof" /\ sres.result.sun_intensity = "High"
                /\ weather_data.temperature > 30 /\ weather_data.temperature <= 35) =>
              sres.result.risk_level = "Medium"
        /\ PeakHours =>
              (sres.result.sun_intensity = "High" <=> weather_data.cloud_cover < 20)
        /\ (PeakHours /\ weather_data.cloud_cover >= 20) =>
              sres.result.risk_level = "None"
        /\ sres.result.risk_level = "High" =>
              /\ placement = "Open Roof"
              /\ sres.result.is_daytime
              /\ sres.result.sun_intensity = "High"
              /\ PeakHours

C11_Witness ==
    /\ sres.called
    /\ placement = "Open Roof"
    /\ PeakHours
    /\ weather_data.cloud_cover = 19
    /\ weather_data.temperature = 36
    /\ sres.result.risk_level = "High"

-----------------------------------------------------------------------------
(* Spec: the plant store behind the add-plant form and the buttons of a    *)
(* plant card, one handler at a time, while the clock runs.                *)

\* Bound: calls of add_plant, and the plant ids the buttons are tried with.
MaxAdds == 3

\* The moment the app is started.
StartTime == 3 * Day + 9 * Hour + 30 * Minute + 15

\* st.slider("Watering Interval (Days) *", min_value=1, max_value=14, value=3)
slider_min == 1
slider_max == 14
slider_value == 3
WateringIntervals == {slider_min, slider_max}

\* What the text inputs of the two forms are given.
PlantNames == {"", "Rose"}
ProfileNames == {"", "Ann"}
ProfileEmails == {"", "ann@example.com"}

\* st.selectbox("Where is it placed? *", [...]): the choices tried.
FormPlacements == {"Open Roof", "Indoor Window"}

\* "if not plant_name" and "if name and email": a text is falsy when empty.
name_given_always(text) == TRUE
name_given(text) == text # ""

Init ==
    /\ now = StartTime
    /\ ticks = 0
    /\ plants = <<>>
    /\ StoreIdle
    /\ base_interval_days = 3
    /\ last_watered = None
    /\ weather_data = [temperature |-> 25, cloud_cover |-> 10,
                       sunrise |-> None, sunset |-> None]
    /\ forecast_data = <<>>
    /\ placement = "Indoor Window"
    /\ wres = NoCall
    /\ wprev = NoCall
    /\ sres = NoCall
    /\ ChatIdle
    /\ NetIdle
    /\ PageIdle

\* The add-plant form is submitted, its fields drawn from the sets given;
\* limit bounds the calls of add_plant the model follows.
AddPlantFormUpTo(limit, names, choices, intervals, uploads) ==
    \E plant_name \in names, pl \in choices, watering_interval \in intervals,
       uploaded_file \in uploads :
        /\ submission' = [form |-> "add_plant", name |-> plant_name, email |-> ""]
        /\ IF ~name_given(plant_name)
           THEN UNCHANGED <<plants, issued, images>>
           ELSE LET image_path == IF uploaded_file THEN ImagePath(plant_name, now)
                                  ELSE NoImage
                    plant_data == [name |-> plant_name,
                                   placement |-> pl,
                                   watering_interval_days |-> watering_interval,
                                   last_watered |-> None,
                                   image_path |-> image_path]
                IN  /\ Len(issued) < limit
                    /\ images' = IF uploaded_file THEN images \cup {image_path} ELSE images
                    /\ plants' = add_plant(plants, plant_data)
                    /\ issued' = Append(issued, new_id(plants))
        /\ UNCHANGED <<now, ticks, user_profile, engineVars, chatVars, netVars, pageVars>>

AddPlantForm(names, choices, intervals, uploads) ==
    AddPlantFormUpTo(MaxAdds, names, choices, intervals, uploads)

\* A named plant is added without a photo, at either end of the slider.
AddPlant == AddPlantForm({"Rose"}, FormPlacements, WateringIntervals, {FALSE})

\* The Water button of a plant card: mark_watered.
WaterButton ==
    \E plant_id \in 1..MaxAdds :
        /\ plants' = mark_watered(plants, plant_id, now)
        /\ UNCHANGED <<now, ticks, storeVars, engineVars, chatVars, netVars, pageVars>>

\* The Remove button of a plant card: delete_plant.
RemoveButton ==
    \E plant_id \in 1..MaxAdds :
        /\ plants' = delete_plant(plants, plant_id)
        /\ UNCHANGED <<now, ticks, storeVars, engineVars, chatVars, netVars, pageVars>>

Next == AddPlant \/ WaterButton \/ RemoveButton \/ Tick

Spec == Init /\ [][Next]_vars

-----------------------------------------------------------------------------
(* Properties of the plant store (Spec) *)

\* A plant has been removed: more ids were handed out than plants are stored.
SomeRemoved == Len(issued) > Len(plants)

\* Some stored plant has been watered.
SomeWatered == \E i \in DOMAIN plants : plants[i].last_watered # None

C14_IdsStrictlyIncreasing ==
    \A i, j \in DOMAIN issued : i < j => issued[i] < issued[j]

\* C15: every stored plant's watering interval is a positive integer.
C15_IntervalPositive ==
    \A i \in DOMAIN plants :
        /\ plants[i].watering_interval_days \in Nat
        /\ plants[i].watering_interval_days >= 1

C15_Witness ==
    /\ SomeRemoved
    /\ \E i \in DOMAIN plants :
          /\ plants[i].watering_interval_days = slider_min
          /\ plants[i].last_watered # None

\* The plant at position i is the same plant before and after the step.
SamePlant(i) ==
    /\ Len(plants') = Len(plants)
    /\ plants'[i].id = plants[i].id

\* C16: the last_watered of each stored plant is absent or not later than
\* the current clock; a plant that is added starts with it absent; and a
\* last_watered that changes becomes the time of the call.
C16_LastWateredNotInFuture ==
    /\ [](\A i \in DOMAIN plants :
            \/ plants[i].last_watered = None
            \/ /\ plants[i].last_watered.kind = "str"
               /\ fromisoformat(plants[i].last_watered.str) <= now)
    /\ [][/\ Len(plants') = Len(plants) + 1 =>
                plants'[Len(plants')].last_watered = None
          /\ \A i \in DOMAIN plants :
                (SamePlant(i) /\ plants'[i].last_watered # plants[i].last_watered) =>
                    /\ plants'[i].last_watered = Str(isoformat(now))
                    /\ fromisoformat(plants'[i].last_watered.str) = now]_vars

C16_Witness ==
    /\ Len(plants) = 2
    /\ plants[1].last_watered = Str(isoformat(StartTime))
    /\ plants[2].last_watered = None
    /\ now = StartTime + 2 * Hour

-----------------------------------------------------------------------------
(* SpecForms: the two forms with required fields, submitted with and       *)
(* without them.                                                           *)

\* The add-plant form, with and without a name and a photo, the slider left
\* at its default.
SubmitAddPlant == AddPlantForm(PlantNames, {"Balcony"}, {slider_value}, BOOLEAN)

\* The profile form is submitted.
SubmitProfile ==
    \E name \in ProfileNames, email \in ProfileEmails :
        /\ submission' = [form |-> "profile", name |-> name, email |-> email]
        /\ IF name_given(name) /\ name_given(email)
           THEN user_profile' = save_user_profile(
                    [name |-> name, email |-> email,
                     created_at |-> IF user_profile.created_at = None
                                    THEN Str(isoformat(now))
                                    ELSE user_profile.created_at], now)
           ELSE UNCHANGED user_profile
        /\ UNCHANGED <<now, ticks, plants, issued, images, engineVars, chatVars, netVars, pageVars>>

NextForms == SubmitAddPlant \/ SubmitProfile \/ Tick

SpecForms == Init /\ [][NextForms]_vars

-----------------------------------------------------------------------------
(* Properties of the forms (SpecForms) *)

\* The step is a submission of the form named, recorded as new.
Submits(form) == submission' # submission /\ submission'.form = form

\* C18: a profile form submitted with an empty name or an empty email
\* leaves the stored profile unchanged; an add-plant form submitted with an
\* empty plant name leaves the plant store unchanged: no plant is added, no
\* id is consumed and no image is saved.
C18_RejectedSubmissionNoMutation ==
    [][/\ (Submits("profile") /\ (submission'.name = "" \/ submission'.email = "")) =>
              user_profile' = user_profile
       /\ (Submits("add_plant") /\ submission'.name = "") =>
              /\ plants' = plants
              /\ new_id(plants') = new_id(plants)
              /\ issued' = issued
              /\ images' = images
              /\ user_profile' = user_profile]_vars

C18_Witness ==
    /\ submission.form = "add_plant"
    /\ submission.name = ""
    /\ Len(plants) = 1
    /\ Cardinality(images) = 1
    /\ user_profile.name = "Ann"

-----------------------------------------------------------------------------
(* SpecChat: questions put to the AI botanist, one after another.          *)

\* Bound: chat messages sent.
MaxMessages == 103

\* data_manager.get_chat_history(20)
ChatViewLimit == 20

\* The entry add_chat_message builds for the n-th question.
chat_entry(n, clock) ==
    [timestamp |-> isoformat(clock), user_message |-> n, bot_response |-> n,
     plant_context |-> ""]

InitChat ==
    /\ now = StartTime
    /\ ticks = 0
    /\ plants = <<>>
    /\ StoreIdle
    /\ base_interval_days = 3
    /\ last_watered = None
    /\ weather_data = [temperature |-> 25, cloud_cover |-> 10,
                       sunrise |-> None, sunset |-> None]
    /\ forecast_data = <<>>
    /\ placement = "Indoor Window"
    /\ wres = NoCall
    /\ wprev = NoCall
    /\ sres = NoCall
    /\ ChatIdle
    /\ NetIdle
    /\ PageIdle

\* A question is answered: the exchange is logged and the session's view of
\* the log is reloaded.
AskBotanist ==
    /\ Len(chat_sent) < MaxMessages
    /\ LET entry == chat_entry(Len(chat_sent) + 1, now)
       IN  /\ chat_history' = add_chat_message(chat_history, entry)
           /\ chat_sent' = Append(chat_sent, entry)
    /\ chat_view' = get_chat_history(chat_history', ChatViewLimit)
    /\ UNCHANGED <<now, ticks, plants, storeVars, engineVars, netVars, pageVars>>

NextChat == AskBotanist

SpecChat == InitChat /\ [][NextChat]_vars

\* C17: after any sequence of add_chat_message calls the stored history
\* holds at most 100 entries, and they are exactly the most recent entries
\* given to add_chat_message, unmodified and in the order they were added.
C17_ChatAppendOnlyCapped ==
    /\ Len(chat_history) <= 100
    /\ Len(chat_history) = Min(Len(chat_sent), 100)
    /\ \A k \in 1..Len(chat_history) :
          chat_history[k] = chat_sent[Len(chat_sent) - Len(chat_history) + k]

C17_Witness ==
    /\ Len(chat_sent) = ChatCap + 2
    /\ Len(chat_history) = ChatCap
    /\ chat_history[1].user_message = 3
    /\ chat_history[ChatCap].user_message = ChatCap + 2

-----------------------------------------------------------------------------
(* External services: every operation that sends an HTTP request, as a     *)
(* function of what the network answers to its successive requests.        *)

\* An answer of the network: requests.get / requests.post raises (timeout,
\* connection error), or returns a status code and a body.  The bodies:
\*   "ok"          the JSON the caller expects, every field present
\*   "partial"     JSON with the required fields, the optional ones absent
\*   "empty"       JSON without the fields the caller reads ({} or [])
\*   "no_city", "no_country", "not_success"
\*                 a geolocation answer without a city, without a country,
\*                 or with a status other than 'success'
\*   "not_json"    response.json() raises
Timeout == [raises |-> TRUE, status |-> 0, body |-> ""]
Http(status, body) == [raises |-> FALSE, status |-> status, body |-> body]

\* What an operation did: the requests it sent, whether it raised, and the
\* value it returned.
Outcome(reqs, v) == [requests |-> reqs, raised |-> FALSE, value |-> v]
Raised(reqs) == [requests |-> reqs, raised |-> TRUE, value |-> [error |-> "exception"]]

\* A request: the endpoint, the question asked (of a VQA request) and the
\* format of the payload.
Get(endpoint) == [endpoint |-> endpoint, question |-> 0, format |-> "query"]
Post(endpoint, question, format) ==
    [endpoint |-> endpoint, question |-> question, format |-> format]

\* datetime.now().replace(hour=h, minute=m): seconds are kept.
replace(t, h, m) == (t \div Day) * Day + h * Hour + m * Minute + second(t)

\* _get_mock_weather
get_mock_weather(clock) ==
    [temperature |-> 32, cloud_cover |-> 10,
     sunrise |-> Datetime(replace(clock, 6, 0)),
     sunset |-> Datetime(replace(clock, 18, 0))]

\* A fallback forecast without precipitation.
get_mock_forecast_dry(clock) ==
    [k \in 1..8 |->
        LET i == k - 1
        IN  [datetime |-> clock + i * 3 * Hour,
             temperature |-> 30 + (i % 3),
             precipitation |-> 0,
             cloud_cover |-> IF i < 4 THEN 10 ELSE 80]]

\* _get_mock_forecast
get_mock_forecast(clock) ==
    [k \in 1..8 |->
        LET i == k - 1
        IN  [datetime |-> clock + i * 3 * Hour,
             temperature |-> 30 + (i % 3),
             precipitation |-> IF i < 4 THEN 0 ELSE 25,
             cloud_cover |-> IF i < 4 THEN 10 ELSE 80]]

\* The snapshot built from a 200 answer of the weather endpoint; clouds is
\* optional: data.get("clouds", {}).get("all", 0).
parsed_weather(body, clock) ==
    [temperature |-> 27,
     cloud_cover |-> IF body = "ok" THEN 40 ELSE 0,
     sunrise |-> Datetime((clock \div Day) * Day + 5 * Hour + 12 * Minute + 7),
     sunset |-> Datetime((clock \div Day) * Day + 18 * Hour + 47 * Minute + 31)]

\* The body has the keys the caller indexes: data["main"]["temp"], data["list"].
has_required(body) == body \in {"ok", "partial"}

WeatherEndpoint == "openweathermap/weather"
ForecastEndpoint == "openweathermap/forecast"

get_current_weather_uncaught(key, rs, clock) ==
    IF ~key THEN Outcome(<<>>, get_mock_weather(clock))
    ELSE LET r == rs[1]
             reqs == <<Get(WeatherEndpoint)>>
         IN  IF r.raises THEN Outcome(reqs, get_mock_weather(clock))
             ELSE IF r.status = 200
             THEN IF has_required(r.body)
                  THEN Outcome(reqs, parsed_weather(r.body, clock))
                  ELSE Raised(reqs)
             ELSE Outcome(reqs, get_mock_weather(clock))
get_current_weather(key, rs, clock) ==
    IF ~key THEN Outcome(<<>>, get_mock_weather(clock))
    ELSE LET r == rs[1]
             reqs == <<Get(WeatherEndpoint)>>
         IN  IF r.raises THEN Outcome(reqs, get_mock_weather(clock))
             ELSE IF r.status = 200
             THEN IF has_required(r.body)
                  THEN Outcome(reqs, parsed_weather(r.body, clock))
                  ELSE Outcome(reqs, get_mock_weather(clock))
             ELSE Outcome(reqs, get_mock_weather(clock))

\* The list of a 200 answer of the forecast endpoint: 3-hour entries, rain
\* optional: item.get("rain", {}).get("3h", 0).
ProviderForecastLen == 20
provider_forecast(body, clock) ==
    [k \in 1..ProviderForecastLen |->
        [datetime |-> clock + k * 3 * Hour,
         temperature |-> 27,
         precipitation |-> IF body = "ok" /\ k = 2 THEN 12 ELSE 0,
         cloud_cover |-> 40]]

\* get_forecast(city, country_code, days)
get_forecast(key, rs, clock, days) ==
    IF ~key THEN Outcome(<<>>, get_mock_forecast(clock))
    ELSE LET r == rs[1]
             reqs == <<Get(ForecastEndpoint)>>
         IN  IF r.raises THEN Outcome(reqs, get_mock_forecast(clock))
             ELSE IF r.status = 200
             THEN IF has_required(r.body)
                  THEN Outcome(reqs, Slice(provider_forecast(r.body, clock), days * 8))
                  ELSE Outcome(reqs, get_mock_forecast(clock))
             ELSE Outcome(reqs, get_mock_forecast(clock))

\* PlantService.search_plant: the species list of the answer
\* (data.get("data", [])), or _get_mock_plant_data(query).
SearchEndpoint == "perenual/species-list"
get_mock_plant_data == [source |-> "mock", found |-> 1]
search_plant(key, rs) ==
    IF ~key THEN Outcome(<<>>, get_mock_plant_data)
    ELSE LET r == rs[1]
             reqs == <<Get(SearchEndpoint)>>
         IN  IF r.raises THEN Outcome(reqs, get_mock_plant_data)
             ELSE IF r.status = 200
             THEN IF r.body = "not_json" THEN Outcome(reqs, get_mock_plant_data)
                  ELSE Outcome(reqs, [source |-> "perenual",
                                      found |-> IF r.body = "ok" THEN 2 ELSE 0])
             ELSE Outcome(reqs, get_mock_plant_data)

\* get_current_location: ipapi.co, then ip-api.com, then the defaults.
FirstProvider == "ipapi.co"
SecondProvider == "ip-api.com"
DEFAULT_CITY == "Sialkot"
DEFAULT_COUNTRY == "PK"
default_location == [city |-> DEFAULT_CITY, country |-> DEFAULT_COUNTRY]

\* data.get('city') and data.get('country_name') / data.get('country') of
\* the answer; None reads as the empty text.
location_of(r) ==
    [city |-> IF r.body \in {"no_city", "empty"} THEN "" ELSE "Lahore",
     country |-> IF r.body \in {"no_country", "empty"} THEN "" ELSE "Pakistan"]

\* data.get('status') == 'success'
status_success(r) == r.body # "not_success"

\* "if response.status_code == 200" with a body response.json() accepts.
answered(r) == ~r.raises /\ r.status = 200 /\ r.body # "not_json"

\* "if city and country_name" / "if city and country"
names_both(r) == location_of(r).city # "" /\ location_of(r).country # ""

get_current_location_second_first(rs) ==
    IF answered(rs[1]) /\ status_success(rs[1]) /\ names_both(rs[1])
    THEN Outcome(<<Get(SecondProvider)>>, location_of(rs[1]))
    ELSE IF answered(rs[2]) /\ names_both(rs[2])
    THEN Outcome(<<Get(SecondProvider), Get(FirstProvider)>>, location_of(rs[2]))
    ELSE Outcome(<<Get(SecondProvider), Get(FirstProvider)>>, default_location)
get_current_location(rs) ==
    IF answered(rs[1]) /\ names_both(rs[1])
    THEN Outcome(<<Get(FirstProvider)>>, location_of(rs[1]))
    ELSE IF answered(rs[2]) /\ status_success(rs[2]) /\ names_both(rs[2])
    THEN Outcome(<<Get(FirstProvider), Get(SecondProvider)>>, location_of(rs[2]))
    ELSE Outcome(<<Get(FirstProvider), Get(SecondProvider)>>, default_location)

\* find_nearby_nurseries: the elements of the Overpass answer, or the mock
\* list of five.
OverpassEndpoint == "overpass-api.de"
mock_nurseries == [source |-> "mock", found |-> 5]
find_nearby_nurseries(rs) ==
    LET r == rs[1]
        reqs == <<Get(OverpassEndpoint)>>
    IN  IF ~r.raises /\ r.status = 200 /\ r.body \in {"ok", "partial"}
        THEN Outcome(reqs, [source |-> "overpass", found |-> 1])
        ELSE Outcome(reqs, mock_nurseries)

\* HuggingFaceService._query_vqa for question q, answered by r1 and, if a
\* second request is sent, r2: the requests sent and the result, a list of
\* answers ("answers"), another JSON value ("other") or an error dict.
VqaEndpoint == "router.huggingface.co/vqa"
vqa_json(r) ==
    IF r.body = "not_json" THEN "error"
    ELSE IF r.body = "ok" THEN "answers" ELSE "other"
query_vqa_single(q, r1, r2) ==
    LET json_request == Post(VqaEndpoint, q, "json")
    IN  IF r1.raises THEN [requests |-> <<json_request>>, result |-> "error"]
        ELSE IF r1.status = 200 THEN [requests |-> <<json_request>>, result |-> vqa_json(r1)]
        ELSE [requests |-> <<json_request>>, result |-> "error"]
query_vqa(q, r1, r2) ==
    LET json_request == Post(VqaEndpoint, q, "json")
        raw_request == Post(VqaEndpoint, q, "raw")
    IN  IF r1.raises THEN [requests |-> <<json_request>>, result |-> "error"]
        ELSE IF r1.status = 200 THEN [requests |-> <<json_request>>, result |-> vqa_json(r1)]
        ELSE IF r1.status = 503 THEN [requests |-> <<json_request>>, result |-> "error"]
        ELSE IF r2.raises THEN [requests |-> <<json_request, raw_request>>, result |-> "error"]
        ELSE IF r2.status = 200
        THEN [requests |-> <<json_request, raw_request>>, result |-> vqa_json(r2)]
        ELSE [requests |-> <<json_request, raw_request>>, result |-> "error"]

\* _get_mock_identification, and the dict identify_plant builds.
get_mock_identification == [plant_name |-> "Unknown Plant", source |-> "Mock"]
identification(plant_name) == [plant_name |-> plant_name, source |-> "Hugging Face VQA"]

\* HuggingFaceService.identify_plant: two questions, each answered by the
\* next answers of the network.
identify_plant(key, rs) ==
    IF ~key THEN Outcome(<<>>, get_mock_identification)
    ELSE LET result1 == query_vqa(1, rs[1], rs[2])
             used == Len(result1.requests)
             result2 == query_vqa(2, rs[used + 1], rs[used + 2])
             plant_name == IF result1.result = "answers" \/ result2.result = "answers"
                           THEN "Rose" ELSE "Unknown Plant"
         IN  Outcome(result1.requests \o result2.requests, identification(plant_name))

-----------------------------------------------------------------------------
(* SpecNet: one call of an external operation, the answers of the network  *)
(* drawn from the cases its code tells apart.                              *)

\* Bound: the answers the network has ready for one call.
MaxRequests == 4

Operations ==
    {"get_current_weather", "get_forecast", "search_plant",
     "get_current_location", "find_nearby_nurseries", "identify_plant"}

\* The answers tried for an operation.
Failures == {Timeout, Http(404, "error"), Http(503, "error")}
ResponsesOf(op) ==
    IF op = "get_current_location"
    THEN Failures \cup {Http(200, b) : b \in {"ok", "no_city", "no_country",
                                              "not_success", "not_json"}}
    ELSE IF op = "identify_plant"
    THEN Failures \cup {Http(200, b) : b \in {"ok", "empty", "not_json"}}
    ELSE Failures \cup {Http(200, b) : b \in {"ok", "partial", "empty", "not_json"}}

\* The moment of the call: 12:30:45.
NetNow == SunDate + 12 * Hour + 30 * Minute + 45

\* weather_service.get_forecast(user_city, user_country, days=2)
ForecastDays == 2

InitNet ==
    /\ now = NetNow
    /\ ticks = 0
    /\ plants = <<>>
    /\ StoreIdle
    /\ base_interval_days = 3
    /\ last_watered = None
    /\ weather_data = [temperature |-> 25, cloud_cover |-> 10,
                       sunrise |-> None, sunset |-> None]
    /\ forecast_data = <<>>
    /\ placement = "Indoor Window"
    /\ wres = NoCall
    /\ wprev = NoCall
    /\ sres = NoCall
    /\ ChatIdle
    /\ operation \in Operations
    /\ api_key \in BOOLEAN
    /\ responses \in [1..MaxRequests -> ResponsesOf(operation)]
    /\ requests = <<>>
    /\ net_result = NoResult
    /\ PageIdle

\* The operation runs to its end.
Returns(op, outcome) ==
    /\ operation = op
    /\ ~net_result.returned
    /\ requests' = outcome.requests
    /\ net_result' = [returned |-> TRUE, raised |-> outcome.raised, value |-> outcome.value]
    /\ UNCHANGED <<now, ticks, plants, storeVars, engineVars, chatVars, api_key,
                   operation, responses, pageVars>>

GetCurrentWeather == Returns("get_current_weather", get_current_weather(api_key, responses, now))
GetForecast == Returns("get_forecast", get_forecast(api_key, responses, now, ForecastDays))
SearchPlant == Returns("search_plant", search_plant(api_key, responses))
GetCurrentLocation == Returns("get_current_location", get_current_location(responses))
FindNearbyNurseries == Returns("find_nearby_nurseries", find_nearby_nurseries(responses))
IdentifyPlant == Returns("identify_plant", identify_plant(api_key, responses))

NextNet ==
    \/ GetCurrentWeather
    \/ GetForecast
    \/ SearchPlant
    \/ GetCurrentLocation
    \/ FindNearbyNurseries
    \/ IdentifyPlant

SpecNet == InitNet /\ [][NextNet]_vars

-----------------------------------------------------------------------------
(* Properties of the external operations (SpecNet) *)

\* The answer to the i-th request of the call.
Answer(i) == responses[i]

\* The answer is a timeout or a non-200 response.
Failed(r) == r.raises \/ r.status # 200

\* The answer cannot be used: a failure, or a 200 whose body does not parse
\* or lacks the fields read.
Unusable(r) == Failed(r) \/ r.body \in {"empty", "not_json"}

Returned(op) == operation = op /\ net_result.returned

WeatherFields == {"temperature", "cloud_cover", "sunrise", "sunset"}

\* The baked-in default snapshot: 32 degrees, 10% cloud, sunrise at 06:00
\* and sunset at 18:00 of the day of the call.
IsDefaultWeather(w) ==
    /\ w.temperature = 32
    /\ w.cloud_cover = 10
    /\ w.sunrise.kind = "datetime"
    /\ w.sunset.kind = "datetime"
    /\ w.sunrise.dt \div Day = now \div Day
    /\ w.sunset.dt \div Day = now \div Day
    /\ MinuteOfDay(w.sunrise.dt) = 6 * MinutesPerHour
    /\ MinuteOfDay(w.sunset.dt) = 18 * MinutesPerHour

\* The baked-in default forecast: 8 entries three hours apart from the time
\* of the call, the first four dry, the last four with 2.5 mm of rain.
IsDefaultForecast(f) ==
    /\ Len(f) = 8
    /\ \A k \in 1..8 :
          /\ f[k].datetime = now + (k - 1) * 3 * Hour
          /\ f[k].precipitation = (IF k <= 4 THEN 0 ELSE 25)

\* C12: get_current_weather and get_forecast never raise and never return
\* an error value: the result has the full field set (temperature,
\* cloud_cover, sunrise, sunset; precipitation in every forecast entry), and
\* it is the baked-in default when the API key is missing, the response
\* status is not 200, or the request or the parsing throws.
C12_WeatherLookupNeverFails ==
    /\ Returned("get_current_weather") =>
          /\ ~net_result.raised
          /\ WeatherFields \subseteq DOMAIN net_result.value
          /\ (~api_key \/ Unusable(Answer(1))) => IsDefaultWeather(net_result.value)
    /\ Returned("get_forecast") =>
          /\ ~net_result.raised
          /\ \A k \in DOMAIN net_result.value :
                {"temperature", "cloud_cover", "precipitation"}
                    \subseteq DOMAIN net_result.value[k]
          /\ (~api_key \/ Unusable(Answer(1))) => IsDefaultForecast(net_result.value)

C12_Witness ==
    /\ Returned("get_current_weather")
    /\ api_key
    /\ Answer(1) = Http(200, "empty")
    /\ requests = <<Get(WeatherEndpoint)>>
    /\ IsDefaultWeather(net_result.value)

\* Request j repeats request i: another request of the same call to the
\* same endpoint (for the same question, of a VQA request).
Repeats(j, i) ==
    /\ j # i
    /\ requests[j].endpoint = requests[i].endpoint
    /\ requests[j].question = requests[i].question

\* C19 as stated: in every external operation, a request answered by a
\* timeout or a non-200 response is the only request of the call to that
\* endpoint: no second request is made.
C19_NoSecondRequest ==
    net_result.returned =>
        \A i \in DOMAIN requests :
            Failed(Answer(i)) => ~\E j \in DOMAIN requests : Repeats(j, i)

\* The answer makes _query_vqa try the other payload format: a response
\* whose status is neither 200 nor 503.
OtherStatus(r) == ~r.raises /\ r.status # 200 /\ r.status # 503

\* C19 as amended: no operation raises.  Weather, forecast, plant search
\* and nursery lookup send at most one request, and each geolocation
\* provider is sent at most one; with a timeout or non-200 answer the first
\* four return their static default.  Vision identification asks two
\* questions, each with one request; a timeout or a 503 ends the question
\* with that single request, but any other non-200 status is followed by
\* exactly one more request to the same endpoint for the same question, in
\* the raw-bytes format, which is never repeated.  With nothing but
\* failures it returns the name "Unknown Plant".
C19_AtMostOneRepeatForVqa ==
    net_result.returned =>
        /\ ~net_result.raised
        /\ operation # "identify_plant" =>
              /\ \A i, j \in DOMAIN requests : ~Repeats(j, i)
              /\ Len(requests) <= 2
              /\ operation # "get_current_location" => Len(requests) <= 1
        /\ (Returned("get_current_weather") /\ api_key /\ Failed(Answer(1))) =>
              IsDefaultWeather(net_result.value)
        /\ (Returned("get_forecast") /\ api_key /\ Failed(Answer(1))) =>
              IsDefaultForecast(net_result.value)
        /\ (Returned("search_plant") /\ api_key /\ Failed(Answer(1))) =>
              net_result.value.source = "mock"
        /\ (Returned("find_nearby_nurseries") /\ Failed(Answer(1))) =>
              net_result.value.source = "mock"
        /\ (Returned("identify_plant") /\ api_key) =>
              /\ Len(requests) >= 2
              /\ Len(requests) <= 4
              /\ \A i \in DOMAIN requests :
                    /\ requests[i].endpoint = VqaEndpoint
                    /\ (requests[i].format = "json" /\ OtherStatus(Answer(i))) =>
                          /\ i + 1 \in DOMAIN requests
                          /\ requests[i + 1].format = "raw"
                          /\ requests[i + 1].question = requests[i].question
                    /\ requests[i].format = "raw" =>
                          /\ i > 1
                          /\ requests[i - 1].format = "json"
                          /\ requests[i - 1].question = requests[i].question
                          /\ OtherStatus(Answer(i - 1))
                    /\ (requests[i].format = "raw" \/ ~OtherStatus(Answer(i))) =>
                          ~\E j \in DOMAIN requests : j > i /\ Repeats(j, i)
              /\ (\A i \in DOMAIN requests : Failed(Answer(i))) =>
                    net_result.value.plant_name = "Unknown Plant"

C19_Witness ==
    /\ Returned("identify_plant")
    /\ api_key
    /\ Answer(1) = Http(404, "error")
    /\ Answer(2) = Timeout
    /\ Answer(3) = Http(503, "error")
    /\ requests = <<Post(VqaEndpoint, 1, "json"), Post(VqaEndpoint, 1, "raw"),
                    Post(VqaEndpoint, 2, "json")>>
    /\ net_result.value.plant_name = "Unknown Plant"

\* The provider failed or returned no city or country; the second provider
\* has also failed when its status is not 'success'.
FirstFailed == Unusable(Answer(1)) \/ Answer(1).body \in {"no_city", "no_country"}
SecondFailed ==
    Unusable(Answer(2)) \/ Answer(2).body \in {"no_city", "no_country", "not_success"}

\* C20: get_current_location contacts ipapi.co first and ip-api.com second,
\* the second only if the first failed or returned no city or country; the
\* defaults are returned only if both failed; the result always has a
\* non-empty city and country, and the function never raises.
C20_ProvidersInOrder ==
    Returned("get_current_location") =>
        /\ ~net_result.raised
        /\ Len(requests) \in {1, 2}
        /\ requests[1] = Get(FirstProvider)
        /\ Len(requests) = 2 <=> FirstFailed
        /\ Len(requests) = 2 => requests[2] = Get(SecondProvider)
        /\ net_result.value = default_location <=> (FirstFailed /\ SecondFailed)
        /\ net_result.value.city # ""
        /\ net_result.value.country # ""

C20_Witness ==
    /\ Returned("get_current_location")
    /\ Answer(1) = Http(200, "no_country")
    /\ Answer(2) = Http(200, "ok")
    /\ requests = <<Get(FirstProvider), Get(SecondProvider)>>
    /\ net_result.value.city = "Lahore"

-----------------------------------------------------------------------------
(* SpecGarden: the add-plant form submitted again and again.               *)

\* Bound: plants added to one garden.
MaxGarden == 51

\* MAX_PLANTS = 50  # Maximum number of plants user can add
MAX_PLANTS == 50

\* One more named plant is added, the form left at its defaults.
AddAnotherPlant ==
    AddPlantFormUpTo(MaxGarden, {"Rose"}, {"Open Roof"}, {slider_value}, {FALSE})

NextGarden == AddAnotherPlant \/ Tick

SpecGarden == Init /\ [][NextGarden]_vars

\* C21: the number of plants in the store never exceeds MAX_PLANTS (50),
\* whatever the sequence of add-plant submissions.
C21_AtMostMaxPlants == Len(plants) <= MAX_PLANTS

-----------------------------------------------------------------------------
(* SpecRace: two sessions share the DataManager of init_services; each     *)
(* runs one store operation, whose _load_plants and _save_plants are       *)
(* separate steps.                                                         *)

Sessions == {1, 2}

\* A store operation a session runs.
AddOp(interval) == [kind |-> "add_plant", plant_id |-> 0, interval |-> interval]
WaterOp(plant_id) == [kind |-> "mark_watered", plant_id |-> plant_id, interval |-> 0]
DeleteOp(plant_id) == [kind |-> "delete_plant", plant_id |-> plant_id, interval |-> 0]

\* The operations tried: add_plant at either end of the slider, and
\* mark_watered and delete_plant of the plant in the store.
StoreOps == {AddOp(i) : i \in WateringIntervals} \cup {WaterOp(1), DeleteOp(1)}

\* What the form hands to add_plant.
form_plant_data(interval) ==
    [name |-> "Rose", placement |-> "Balcony", watering_interval_days |-> interval,
     last_watered |-> None, image_path |-> NoImage]

\* The list the operation saves, computed from the list it loaded.
modified(op, loaded, clock) ==
    IF op.kind = "add_plant" THEN add_plant(loaded, form_plant_data(op.interval))
    ELSE IF op.kind = "mark_watered" THEN mark_watered(loaded, op.plant_id, clock)
    ELSE delete_plant(loaded, op.plant_id)

InitRace ==
    /\ now = StartTime
    /\ ticks = 0
    /\ plants = StoredPlants
    /\ StoreIdle
    /\ base_interval_days = 3
    /\ last_watered = None
    /\ weather_data = [temperature |-> 25, cloud_cover |-> 10,
                       sunrise |-> None, sunset |-> None]
    /\ forecast_data = <<>>
    /\ placement = "Indoor Window"
    /\ wres = NoCall
    /\ wprev = NoCall
    /\ sres = NoCall
    /\ ChatIdle
    /\ NetIdle
    /\ sprev = NoCall
    /\ store_ret = NoReturn
    /\ dash = NoRender
    /\ sessions \in [Sessions -> {[op |-> o, pc |-> "start", loaded |-> <<>>] :
                                   o \in StoreOps}]

\* plants = self._load_plants()
LoadPlants ==
    \E s \in Sessions :
        /\ sessions[s].pc = "start"
        /\ sessions' = [sessions EXCEPT ![s].pc = "loaded", ![s].loaded = plants]
        /\ UNCHANGED <<now, ticks, plants, storeVars, engineVars, chatVars, netVars,
                       sprev, store_ret, dash>>

\* update_plant saves only when it finds the id in the list it loaded.
saves(op, loaded) ==
    op.kind = "mark_watered" => \E i \in DOMAIN loaded : loaded[i].id = op.plant_id

\* The list is changed in memory, then self._save_plants(plants).
SavePlants ==
    \E s \in Sessions :
        /\ sessions[s].pc = "loaded"
        /\ plants' = IF saves(sessions[s].op, sessions[s].loaded)
                      THEN modified(sessions[s].op, sessions[s].loaded, now)
                      ELSE plants
        /\ sessions' = [sessions EXCEPT ![s].pc = "done"]
        /\ UNCHANGED <<now, ticks, storeVars, engineVars, chatVars, netVars,
                       sprev, store_ret, dash>>

NextRace == LoadPlants \/ SavePlants

SpecRace == InitRace /\ [][NextRace]_vars

\* Both operations have run to their end.
BothDone == sessions # <<>> /\ \A s \in Sessions : sessions[s].pc = "done"

\* The store after the operations of sessions a and b run one after the
\* other on the store the sessions started from.
Serial(a, b) ==
    modified(sessions[b].op, modified(sessions[a].op, StoredPlants, now), now)

\* C22: when the load / modify / save steps of two store operations from
\* two sessions interleave, the final store contains the effect of both
\* operations (it is the store one of the two serial orders leaves) and all
\* plant ids are distinct.
C22_InterleavingKeepsBothEffects ==
    BothDone =>
        /\ plants \in {Serial(1, 2), Serial(2, 1)}
        /\ \A i, j \in DOMAIN plants : i # j => plants[i].id # plants[j].id

-----------------------------------------------------------------------------
(* The intensity table                                                     *)

\* The band of the day: 1 for [0, 4) hours since sunrise, 2 for [4, 8),
\* 3 for 8 hours and more.
BandOf(m) ==
    IF m < 4 * MinutesPerHour THEN 1 ELSE IF m < 8 * MinutesPerHour THEN 2 ELSE 3

\* The cloud bucket: 1 below 20%, 2 for 20% to 49%, 3 for 50% and more.
BucketOf(cloud_cover) == IF cloud_cover < 20 THEN 1 ELSE IF cloud_cover < 50 THEN 2 ELSE 3

\* The table of labels, one row per band, one column per cloud bucket.
IntensityTable ==
    << <<"Medium", "Low", "Low">>,
       <<"High", "Medium", "Low">>,
       <<"Medium-High", "Medium", "Low">> >>

\* C23: in daytime the intensity label is the table entry of the band of
\* the time since sunrise and the bucket of the cloud cover; exactly 4 hours
\* is in the midday band, exactly 8 hours in the afternoon band, 20% in the
\* middle bucket and 50% in the top bucket.
C23_IntensityTable ==
    (sres.called /\ sres.result.is_daytime) =>
        sres.result.sun_intensity =
            IntensityTable[BandOf(minutes_since_sunrise(weather_data, sres.at))]
                          [BucketOf(weather_data.cloud_cover)]

\* A call exactly 4 hours after sunrise under a cloud cover of exactly 20%
\* was labelled Medium: the midday band, the middle bucket.
C23_Witness ==
    /\ sres.called
    /\ PairSupplied
    /\ sres.result.is_daytime
    /\ minutes_since_sunrise(weather_data, sres.at) = 4 * MinutesPerHour
    /\ weather_data.cloud_cover = 20
    /\ sres.result.sun_intensity = "Medium"

-----------------------------------------------------------------------------
(* SpecSunDay: the estimate is taken again as the day goes on, for one     *)
(* placement and one weather snapshot.                                     *)

InitSunDay ==
    /\ InitSun
    /\ weather_data.temperature = 28

\* The dashboard is rendered again: the previous estimate is kept for
\* comparison.
EstimateAgain ==
    /\ \E r \in get_sun_exposure_estimate(placement, weather_data, now) :
          sres' = Call(now, r)
    /\ sprev' = sres
    /\ UNCHANGED <<now, base_interval_days, last_watered, weather_data, forecast_data,
                   placement, plants, wres, wprev, ticks, storeVars, chatVars, netVars,
                   sessions, store_ret, dash>>

\* The clock moves on to a later time of the same day.
LaterInDay ==
    /\ \E t \in SunNowTimes : t > now /\ now' = t
    /\ UNCHANGED <<engineVars, plants, ticks, storeVars, chatVars, netVars, pageVars>>

NextSunDay == EstimateAgain \/ LaterInDay

SpecSunDay == InitSunDay /\ [][NextSunDay]_vars

\* C24: for a fixed placement, cloud cover, sunrise and sunset, sun_hours
\* never increases as the time since sunrise advances during the day, also
\* across the band boundaries at 4 and 8 hours.
C24_SunHoursNeverIncrease ==
    (/\ sprev.called
     /\ sres.called
     /\ sprev.result.is_daytime
     /\ sres.result.is_daytime
     /\ sprev.at < sres.at) =>
        sres.result.sun_hours <= sprev.result.sun_hours

-----------------------------------------------------------------------------
(* The two rain signals                                                    *)

\* C25: a result with rain_expected = true also has recent_rain = true and
\* needs_water = false, and the 'Rain expected soon' outcome is never
\* returned.
C25_RainExpectedImpliesRecentRain ==
    (wres.called /\ Truthy(last_watered)) =>
        /\ wres.result.rain_expected =>
              (wres.result.recent_rain /\ ~wres.result.needs_water)
        /\ wres.result.message.text # "Rain expected soon. Hold off on watering."

\* A call whose forecast has precipitation in its first four entries
\* returned rain_expected = true with the recent-rain message.
C25_Witness ==
    /\ wres.called
    /\ Truthy(last_watered)
    /\ RainWithin(forecast_data, 4)
    /\ wres.result.rain_expected
    /\ wres.result.recent_rain
    /\ wres.result.message.text = "Recent rain detected. No need to water yet."

-----------------------------------------------------------------------------
(* The dashboard page: the sidebar statistics, the weather banner and one  *)
(* card per plant, rendered from the plants of the session and the weather *)
(* loaded for the page.                                                    *)

\* The sidebar's test of one plant: the days since the last watering against
\* the plant's own interval; a plant never watered, or whose stamp does not
\* parse, counts as needing water.
sidebar_needs_water(plant, clock) ==
    IF Truthy(plant.last_watered)
    THEN IF plant.last_watered.kind = "str"
         THEN timedelta_days(clock - fromisoformat(plant.last_watered.str))
                  >= plant.watering_interval_days
         ELSE TRUE
    ELSE TRUE

\* needs_water_count and healthy_count of the sidebar.
garden_stats(store, clock) ==
    LET needy == {i \in DOMAIN store : sidebar_needs_water(store[i], clock)}
    IN  [needs_water_count |-> Cardinality(needy),
         healthy_count |-> Cardinality(DOMAIN store \ needy)]

\* is_daytime of the weather banner.
banner_is_daytime(weather, clock) ==
    IF Truthy(weather.sunrise) /\ Truthy(weather.sunset)
    THEN /\ hour(weather.sunrise.dt) <= hour(clock)
         /\ hour(clock) <= hour(weather.sunset.dt)
    ELSE TRUE

\* watering_status of each card.
watering_cards(store, weather, forecast, clock) ==
    [i \in DOMAIN store |->
        calculate_watering_schedule(store[i].watering_interval_days,
                                    store[i].last_watered, weather, forecast, clock)]

\* sun_exposure of each card: the lists of estimates the cards can show.
sun_cards(store, weather, clock) ==
    LET estimates(i) == get_sun_exposure_estimate(store[i].placement, weather, clock)
    IN  {f \in [DOMAIN store -> UNION {estimates(i) : i \in DOMAIN store}] :
            \A i \in DOMAIN store : f[i] \in estimates(i)}

\* The page is rendered with the weather and the forecast the weather
\* service returned for it.
RenderPage(weather, forecast) ==
    /\ weather_data' = weather
    /\ forecast_data' = forecast
    /\ \E suns \in sun_cards(plants, weather, now) :
          dash' = [rendered |-> TRUE,
                   at |-> now,
                   plants |-> plants,
                   stats |-> garden_stats(plants, now),
                   is_daytime |-> banner_is_daytime(weather, now),
                   watering |-> watering_cards(plants, weather, forecast, now),
                   sun |-> suns]
    /\ UNCHANGED <<now, ticks, plants, base_interval_days, last_watered, placement,
                   wres, wprev, sres, storeVars, chatVars, netVars,
                   sprev, sessions, store_ret>>

-----------------------------------------------------------------------------
(* SpecCare: one plant is watered from its card and the dashboard is       *)
(* rendered as the days pass.                                              *)

MaxCareDays == 4

CareTemps == {10, 25, 40}

CareWeathers ==
    {[temperature |-> t, cloud_cover |-> 10, sunrise |-> None, sunset |-> None] :
        t \in CareTemps}

\* A dry forecast and one with rain in its sixth entry.
CareForecasts == {Forecast(8, 0), Forecast(8, 6)}

InitCare ==
    /\ now = StartTime
    /\ ticks = 0
    /\ \E interval \in 1..MaxInterval :
          plants = <<[id |-> 1, name |-> "Rose", placement |-> "Balcony",
                      watering_interval_days |-> interval, last_watered |-> None,
                      image_path |-> NoImage]>>
    /\ StoreIdle
    /\ base_interval_days = 3
    /\ last_watered = None
    /\ weather_data \in CareWeathers
    /\ forecast_data = Forecast(8, 0)
    /\ placement = "Indoor Window"
    /\ wres = NoCall
    /\ wprev = NoCall
    /\ sres = NoCall
    /\ ChatIdle
    /\ NetIdle
    /\ PageIdle

\* The dashboard is rendered with the weather of the moment.
RenderDashboard ==
    \E weather \in CareWeathers, forecast \in CareForecasts :
        RenderPage(weather, forecast)

\* Half a day passes.
HalfDayPasses ==
    /\ now < StartTime + MaxCareDays * Day
    /\ now' = now + 12 * Hour
    /\ UNCHANGED <<engineVars, plants, ticks, storeVars, chatVars, netVars, pageVars>>

NextCare == WaterButton \/ RenderDashboard \/ HalfDayPasses

SpecCare == InitCare /\ [][NextCare]_vars

\* The time passed at the rendering since plant i of the page was watered.
SinceWatered(i) == dash.at - fromisoformat(dash.plants[i].last_watered.str)

\* C26: for a plant with a base interval of at least 1 that was marked as
\* watered, the card's schedule has needs_water = false and urgency low
\* while less than a full day has passed, whatever the temperature and the
\* forecast, and has needs_water = true only once at least adjusted-interval
\* days have elapsed.
C26_WateredPlantNotDue ==
    dash.rendered =>
        \A i \in DOMAIN dash.plants :
            (Truthy(dash.plants[i].last_watered)
                /\ dash.plants[i].watering_interval_days >= 1) =>
                /\ SinceWatered(i) < Day =>
                      (~dash.watering[i].needs_water /\ dash.watering[i].urgency = "low")
                /\ dash.watering[i].needs_water =>
                      SinceWatered(i) >= dash.watering[i].adjusted_interval * Day

\* A plant of interval 1 watered half a day before was rendered in heat
\* above 35 degrees under a dry forecast, and its card does not ask for water.
C26_Witness ==
    /\ dash.rendered
    /\ Len(dash.plants) = 1
    /\ Truthy(dash.plants[1].last_watered)
    /\ dash.plants[1].watering_interval_days = 1
    /\ SinceWatered(1) = 12 * Hour
    /\ weather_data.temperature > 35
    /\ forecast_data = Forecast(8, 0)
    /\ ~dash.watering[1].needs_water
    /\ dash.watering[1].urgency = "low"

-----------------------------------------------------------------------------
(* SpecFallback: the dashboard of an installation without a weather key,   *)
(* which shows the built-in weather and forecast.                          *)

\* The dashboard is rendered; no key is configured, so the weather service
\* answers with its built-in weather and forecast.
RenderFallback ==
    RenderPage(get_current_weather(FALSE, <<>>, now).value,
               get_forecast(FALSE, <<>>, now, ForecastDays).value)

NextFallback == WaterButton \/ RenderFallback \/ HalfDayPasses

SpecFallback == InitCare /\ [][NextFallback]_vars

\* C27: under the built-in fallback forecast a card has needs_water = true
\* exactly for a plant that was never watered: a plant with a last_watered
\* time has needs_water = false however many days have elapsed.
C27_FallbackNeverDue ==
    dash.rendered =>
        \A i \in DOMAIN dash.plants :
            dash.watering[i].needs_water <=> ~Truthy(dash.plants[i].last_watered)

\* A plant watered at least a day more than its interval before the
\* rendering has a card that does not ask for water.
C27_Witness ==
    /\ dash.rendered
    /\ Len(dash.plants) = 1
    /\ Truthy(dash.plants[1].last_watered)
    /\ SinceWatered(1) >= (dash.plants[1].watering_interval_days + 1) * Day
    /\ forecast_data = get_mock_forecast(dash.at)
    /\ ~dash.watering[1].needs_water

-----------------------------------------------------------------------------
(* SpecBanner: the dashboard of a garden of one plant, rendered at times   *)
(* around sunrise and sunset.                                              *)

BannerWeathers == {w \in SunWeathers : w.temperature = 28 /\ w.cloud_cover \in {10, 50}}

InitBanner ==
    /\ now \in SunNowTimes
    /\ ticks = 0
    /\ plants = StoredPlants
    /\ StoreIdle
    /\ base_interval_days = 3
    /\ last_watered = None
    /\ weather_data \in BannerWeathers
    /\ forecast_data = <<>>
    /\ placement = "Indoor Window"
    /\ wres = NoCall
    /\ wprev = NoCall
    /\ sres = NoCall
    /\ ChatIdle
    /\ NetIdle
    /\ PageIdle

\* The dashboard is rendered with the weather of the moment.
RenderBanner == \E weather \in BannerWeathers : RenderPage(weather, <<>>)

NextBanner == RenderBanner \/ LaterInDay

SpecBanner == InitBanner /\ [][NextBanner]_vars

\* C28: the is_daytime of the dashboard banner equals the is_daytime the
\* sun-exposure engine reports on the cards of the same rendering, for every
\* time, sunrise and sunset.
C28_BannerAgreesWithEngine ==
    dash.rendered =>
        \A i \in DOMAIN dash.sun : dash.sun[i].is_daytime = dash.is_daytime

-----------------------------------------------------------------------------
(* The sidebar statistics against the cards                                *)

\* C29: on one rendering the sidebar's two counts add up to the number of
\* plants, and its needs-water count is the number of plants whose card
\* schedule has needs_water = true.
C29_SidebarAgreesWithCards ==
    dash.rendered =>
        /\ dash.stats.needs_water_count + dash.stats.healthy_count = Len(dash.plants)
        /\ dash.stats.needs_water_count =
              Cardinality({i \in DOMAIN dash.plants : dash.watering[i].needs_water})

-----------------------------------------------------------------------------
(* SpecFrame: mark_watered and delete_plant called with any id, in a store *)
(* filled through the form; what each call returned is kept with the store *)
(* before and after it.                                                    *)

\* What update_plant returns: the updated plant, or None when no plant has
\* the id.
update_plant_returns(store, plant_id, value) ==
    LET hits == {i \in DOMAIN store : store[i].id = plant_id}
    IN  IF hits = {} THEN None
        ELSE LET first == CHOOSE i \in hits : \A j \in hits : i <= j
             IN  update_plant(store, plant_id, value)[first]

\* What mark_watered returns.
mark_watered_returns(store, plant_id, clock) ==
    update_plant_returns(store, plant_id, watered_stamp(clock))

\* What delete_plant returns.
delete_plant_returns == TRUE

\* The ids a caller may pass: those the store ever issues and one more.
CallIds == 1..(MaxAdds + 1)

StoreCall(op, plant_id, before, after, value) ==
    [returned |-> TRUE, op |-> op, plant_id |-> plant_id,
     before |-> before, after |-> after, value |-> value]

FrameAddPlant == AddPlantForm({"Rose"}, {"Balcony"}, WateringIntervals, {FALSE})

CallMarkWatered ==
    \E plant_id \in CallIds :
        /\ plants' = mark_watered(plants, plant_id, now)
        /\ store_ret' = StoreCall("mark_watered", plant_id, plants, plants',
                                  mark_watered_returns(plants, plant_id, now))
        /\ UNCHANGED <<now, ticks, storeVars, engineVars, chatVars, netVars,
                       sprev, sessions, dash>>

CallDeletePlant ==
    \E plant_id \in CallIds :
        /\ plants' = delete_plant(plants, plant_id)
        /\ store_ret' = StoreCall("delete_plant", plant_id, plants, plants',
                                  delete_plant_returns)
        /\ UNCHANGED <<now, ticks, storeVars, engineVars, chatVars, netVars,
                       sprev, sessions, dash>>

NextFrame == FrameAddPlant \/ CallMarkWatered \/ CallDeletePlant \/ Tick

SpecFrame == Init /\ [][NextFrame]_vars

\* The id of the latest call was the id of a plant of the store.
IdPresent == \E i \in DOMAIN store_ret.before : store_ret.before[i].id = store_ret.plant_id

\* The fields of a plant other than last_watered.
SameButLastWatered(p, q) == q = [p EXCEPT !.last_watered = q.last_watered]

\* The list without its k-th element.
Without(store, k) == SubSeq(store, 1, k - 1) \o SubSeq(store, k + 1, Len(store))

\* C30: mark_watered(id) changes only the last_watered of the plant with
\* that id and delete_plant(id) removes exactly that plant, the other plants
\* and their order unchanged; for an id not in the store mark_watered returns
\* None, delete_plant returns True, and the store is unchanged.
C30_FrameConditions ==
    store_ret.returned =>
        LET before == store_ret.before
            after == store_ret.after
            plant_id == store_ret.plant_id
        IN  IF store_ret.op = "mark_watered"
            THEN IF IdPresent
                 THEN /\ Len(after) = Len(before)
                      /\ \A i \in DOMAIN before :
                            IF before[i].id = plant_id
                            THEN /\ SameButLastWatered(before[i], after[i])
                                 /\ store_ret.value = after[i]
                            ELSE after[i] = before[i]
                 ELSE after = before /\ store_ret.value = None
            ELSE /\ store_ret.value = TRUE
                 /\ IF IdPresent
                    THEN \E k \in DOMAIN before :
                            before[k].id = plant_id /\ after = Without(before, k)
                    ELSE after = before

\* The first of three plants was deleted: the two others are left, in order.
C30_Witness ==
    /\ store_ret.returned
    /\ store_ret.op = "delete_plant"
    /\ Len(store_ret.before) = 3
    /\ store_ret.before[1].id = store_ret.plant_id
    /\ store_ret.after = Tail(store_ret.before)

====
